---- MODULE Spec2Model ----
(***************************************************************************)
(* Model of github.com/Clever/configure (configure.go, the string/bool     *)
(* revision at lines 145-318): Configure fills a tagged struct from        *)
(* command-line flags or, when no flag was found, from a JSON blob given   *)
(* as the first positional argument, then validates required fields.       *)
(*                                                                         *)
(* Strings are sequences of one-character strings, so that splitting a     *)
(* tag, scanning a flag argument and decoding JSON text are computed the   *)
(* way the code (and the Go flag / encoding/json packages it calls)        *)
(* computes them.                                                          *)
(***************************************************************************)
EXTENDS Integers, Sequences, FiniteSets, TLC

VARIABLES
    flagParsed,   \* flag.Parsed(): parse state of the process-wide flag.CommandLine
    byRef,        \* configStruct is a pointer (reflect.Ptr)
    fields,       \* the caller's struct, field by field, as it is now
    pre,          \* the struct's fields as they were before the last call
    preParsed,    \* flag.Parsed() as it was before the last call
    args,         \* os.Args[1:]
    pc,           \* "idle" before the first call, "done" after a call returned
    calls,        \* number of Configure calls made by the process
    ret,          \* what the last call returned and did (see Configure)
    tag,          \* parseTagKey's input (tag specification)
    tagResult     \* parseTagKey's result (tag specification)

vars == <<flagParsed, byRef, fields, pre, preParsed, args, pc, calls, ret, tag, tagResult>>

(***************************************************************************)
(* Bounds                                                                  *)
(***************************************************************************)
MaxFields == 2
MaxCalls == 2
MaxTokens == 3

(***************************************************************************)
(* Constants and sentinel errors of configure.go                           *)
(***************************************************************************)
requiredTagKey == <<"r", "e", "q", "u", "i", "r", "e", "d">>
missingValuesErrTemplate == "Missing required fields: %s"

\* An error value: the message (or format) and its argument as text.
Err(msg) == [msg |-> msg, arg |-> <<>>]
Nil == Err("")

ErrStringAndBoolOnly == Err("Only string/bool values are allowed in a config struct.")
ErrBoolCannotBeRequired == Err("Boolean attributes cannot be required")
ErrNotReference == Err("The config struct must be a pointer to a struct.")
ErrStructOnly == Err("Config object must be a struct.")
ErrNoTagValue == Err("Config object attributes must have a 'config' tag value.")
ErrTooManyTagValues == Err("Config object attributes can only have a key and optional required attribute.")
ErrFlagParsed == Err("The flag library cannot be used in conjunction with configure")
ErrInvalidJSON == Err("Invalid JSON found in arguments.")
ErrStructTagInvalidOption == Err("Only 'required' is a config option.")

(***************************************************************************)
(* strings.Split(tag, ",") and parseTagKey                                 *)
(***************************************************************************)
Comma == ","

RECURSIVE Split(_)
Split(s) ==
    IF \A i \in 1..Len(s) : s[i] # Comma
    THEN <<s>>
    ELSE LET i == CHOOSE k \in 1..Len(s) :
                      s[k] = Comma /\ \A j \in 1..(k - 1) : s[j] # Comma
         IN  <<SubSeq(s, 1, i - 1)>> \o Split(SubSeq(s, i + 1, Len(s)))

TagResult(key, required, err) == [key |-> key, required |-> required, err |-> err]

\* A plausible slip: the option after the comma is not compared with "required".
parseTagKeyAnyOption(t) ==
    IF t = <<>> THEN TagResult(<<>>, FALSE, ErrNoTagValue)
    ELSE LET s == Split(t)
         IN  CASE Len(s) = 2 -> TagResult(s[1], TRUE, Nil)
               [] Len(s) = 1 -> TagResult(s[1], FALSE, Nil)
               [] OTHER -> TagResult(<<>>, FALSE, ErrTooManyTagValues)

parseTagKey(t) ==
    IF t = <<>> THEN TagResult(<<>>, FALSE, ErrNoTagValue)
    ELSE LET s == Split(t)
         IN  CASE Len(s) = 2 ->
                    IF s[2] # requiredTagKey
                    THEN TagResult(<<>>, FALSE, ErrStructTagInvalidOption)
                    ELSE TagResult(s[1], TRUE, Nil)
               [] Len(s) = 1 -> TagResult(s[1], FALSE, Nil)
               [] OTHER -> TagResult(<<>>, FALSE, ErrTooManyTagValues)

(***************************************************************************)
(* The struct and the flag set                                             *)
(***************************************************************************)
\* One struct field: its reflect.Kind, its `config` tag, whether it is
\* exported (CanSet), and its value (s for a string field, b for a bool).
Field(kind, t, exported, s, b) ==
    [kind |-> kind, tag |-> t, exported |-> exported, s |-> s, b |-> b]

\* A defined flag and its current value (flag.String / flag.Bool).
FlagVar(kind, s, b) == [kind |-> kind, s |-> s, b |-> b]

NoFlags == [n \in {} |-> FlagVar("string", <<>>, FALSE)]

Panic == Err("panic")

\* A plausible slip: floats are let through the kind check.
SupportedKindWithFloat(kind) == kind \in {"string", "bool", "float64"}

\* "currently we only support strings and bools"
SupportedKind(kind) == kind \in {"string", "bool"}

\* A plausible slip: a bool flag defaults to false, like a string flag to "".
BoolDefaultFalse(f) == FALSE

\* "set the default to the value passed in"
BoolDefault(f) == f.b

\* The first loop of Configure: check every field and create its flag.
\* FlagSet.Var panics when a name is defined twice.
RECURSIVE CreateFlags(_, _, _)
CreateFlags(fs, i, formal) ==
    IF i > Len(fs) THEN [err |-> Nil, formal |-> formal]
    ELSE LET f == fs[i]
             t == parseTagKey(f.tag)
         IN  IF ~f.exported THEN [err |-> ErrNotReference, formal |-> formal]
             ELSE IF ~SupportedKind(f.kind)
                  THEN [err |-> ErrStringAndBoolOnly, formal |-> formal]
             ELSE IF t.err # Nil THEN [err |-> t.err, formal |-> formal]
             ELSE IF f.kind \notin {"string", "bool"}
                  THEN CreateFlags(fs, i + 1, formal)
             ELSE IF t.key \in DOMAIN formal THEN [err |-> Panic, formal |-> formal]
             ELSE CreateFlags(fs, i + 1,
                      [n \in DOMAIN formal \cup {t.key} |->
                          IF n = t.key
                          THEN IF f.kind = "string"
                               THEN FlagVar("string", <<>>, FALSE)
                               ELSE FlagVar("bool", <<>>, BoolDefault(f))
                          ELSE formal[n]])

(***************************************************************************)
(* flag.FlagSet.Parse (ContinueOnError), as called at configure.go:244     *)
(***************************************************************************)
Dash == "-"
Equals == "="

ErrHelp == Err("flag: help requested")
ErrNotDefined(name) == [msg |-> "flag provided but not defined: -%s", arg |-> name]
ErrBadSyntax(s) == [msg |-> "bad flag syntax: %s", arg |-> s]
ErrNeedsArgument(name) == [msg |-> "flag needs an argument: -%s", arg |-> name]
ErrInvalidBool(name) == [msg |-> "invalid boolean value for -%s", arg |-> name]

HelpNames == {<<"h">>, <<"h", "e", "l", "p">>}

TrueTexts == {<<"1">>, <<"t">>, <<"T">>, <<"t", "r", "u", "e">>,
              <<"T", "R", "U", "E">>, <<"T", "r", "u", "e">>}
FalseTexts == {<<"0">>, <<"f">>, <<"F">>, <<"f", "a", "l", "s", "e">>,
               <<"F", "A", "L", "S", "E">>, <<"F", "a", "l", "s", "e">>}

SetFlag(formal, name, v) == [formal EXCEPT ![name] = v]

ParseResult(err, formal, rest) == [err |-> err, formal |-> formal, rest |-> rest]

\* FlagSet.Parse: parseOne until the first non-flag argument, "--", or an error.
RECURSIVE Parse(_, _)
Parse(formal, argv) ==
    IF argv = <<>> THEN ParseResult(Nil, formal, argv)
    ELSE LET s == Head(argv)
         IN  IF Len(s) < 2 \/ s[1] # Dash THEN ParseResult(Nil, formal, argv)
             ELSE LET numMinuses == IF s[2] = Dash THEN 2 ELSE 1
                  IN  IF numMinuses = 2 /\ Len(s) = 2
                      THEN ParseResult(Nil, formal, Tail(argv))
                      ELSE LET full == SubSeq(s, numMinuses + 1, Len(s))
                           IN  IF full[1] = Dash \/ full[1] = Equals
                               THEN ParseResult(ErrBadSyntax(s), formal, Tail(argv))
                               ELSE LET eqs == {i \in 2..Len(full) : full[i] = Equals}
                                        hasValue == eqs # {}
                                        e == IF hasValue
                                             THEN CHOOSE i \in eqs : \A j \in eqs : i <= j
                                             ELSE Len(full) + 1
                                        name == SubSeq(full, 1, e - 1)
                                        value == SubSeq(full, e + 1, Len(full))
                                        rest == Tail(argv)
                                    IN  IF name \notin DOMAIN formal
                                        THEN IF name \in HelpNames
                                             THEN ParseResult(ErrHelp, formal, rest)
                                             ELSE ParseResult(ErrNotDefined(name), formal, rest)
                                        ELSE IF formal[name].kind = "bool"
                                        THEN IF ~hasValue
                                             THEN Parse(SetFlag(formal, name,
                                                          FlagVar("bool", <<>>, TRUE)), rest)
                                             ELSE IF value \in TrueTexts \cup FalseTexts
                                             THEN Parse(SetFlag(formal, name,
                                                          FlagVar("bool", <<>>, value \in TrueTexts)),
                                                        rest)
                                             ELSE ParseResult(ErrInvalidBool(name), formal, rest)
                                        ELSE IF hasValue
                                        THEN Parse(SetFlag(formal, name,
                                                     FlagVar("string", value, FALSE)), rest)
                                        ELSE IF rest # <<>>
                                        THEN Parse(SetFlag(formal, name,
                                                     FlagVar("string", Head(rest), FALSE)),
                                                   Tail(rest))
                                        ELSE ParseResult(ErrNeedsArgument(name), formal, rest)

\* FlagSet.Arg(0): the first argument left after the flags, "" if none.
Arg0(rest) == IF rest = <<>> THEN <<>> ELSE rest[1]

(***************************************************************************)
(* json.NewDecoder(...).Decode(&jsonValues), jsonValues a                  *)
(* map[string]interface{}.  The texts decoded here are flat: an object's   *)
(* values are strings, true, false, null or digits.                        *)
(***************************************************************************)
Quote == "\""
Colon == ":"
OpenBrace == "{"
CloseBrace == "}"
Digits == {"0", "1", "2", "3", "4", "5", "6", "7", "8", "9"}
TrueLit == <<"t", "r", "u", "e">>
FalseLit == <<"f", "a", "l", "s", "e">>
NullLit == <<"n", "u", "l", "l">>

\* A decoded interface{} value: t is its dynamic type.
JVal(t, s, b) == [t |-> t, s |-> s, b |-> b]
JString(s) == JVal("string", s, FALSE)
JBool(b) == JVal("bool", <<>>, b)
JNumber(s) == JVal("float64", s, FALSE)
JNull == JVal("nil", <<>>, FALSE)

EmptyObject == [k \in {} |-> JNull]

At(s, i) == IF i \in 1..Len(s) THEN s[i] ELSE ""
HasPrefixAt(s, i, lit) ==
    i + Len(lit) - 1 <= Len(s) /\ SubSeq(s, i, i + Len(lit) - 1) = lit

Scanned(ok, val, next) == [ok |-> ok, val |-> val, next |-> next]
ScanFail == Scanned(FALSE, JNull, 0)

\* A string literal opening at s[i]: up to the next quote.
ScanString(s, i) ==
    LET js == {j \in (i + 1)..Len(s) : s[j] = Quote}
    IN  IF At(s, i) # Quote \/ js = {} THEN ScanFail
        ELSE LET j == CHOOSE k \in js : \A m \in js : k <= m
             IN  Scanned(TRUE, JString(SubSeq(s, i + 1, j - 1)), j + 1)

\* A number beginning at s[i]: the run of digits.
ScanNumber(s, i) ==
    LET ends == {j \in i..Len(s) : At(s, j + 1) \notin Digits}
        j == CHOOSE k \in ends : \A m \in ends : k <= m
    IN  Scanned(TRUE, JNumber(SubSeq(s, i, j)), j + 1)

ScanValue(s, i) ==
    IF At(s, i) = Quote THEN ScanString(s, i)
    ELSE IF HasPrefixAt(s, i, TrueLit) THEN Scanned(TRUE, JBool(TRUE), i + 4)
    ELSE IF HasPrefixAt(s, i, FalseLit) THEN Scanned(TRUE, JBool(FALSE), i + 5)
    ELSE IF HasPrefixAt(s, i, NullLit) THEN Scanned(TRUE, JNull, i + 4)
    ELSE IF At(s, i) \in Digits THEN ScanNumber(s, i)
    ELSE ScanFail

Decoded(ok, m) == [ok |-> ok, m |-> m]

\* The members of an object, s[i] being where a key must open; a key met
\* again replaces the value decoded for it before.
RECURSIVE ScanMembers(_, _, _)
ScanMembers(s, i, m) ==
    LET k == ScanString(s, i)
        v == ScanValue(s, k.next + 1)
        m2 == [x \in DOMAIN m \cup {k.val.s} |-> IF x = k.val.s THEN v.val ELSE m[x]]
    IN  IF ~k.ok \/ At(s, k.next) # Colon \/ ~v.ok THEN Decoded(FALSE, EmptyObject)
        ELSE IF At(s, v.next) = Comma THEN ScanMembers(s, v.next + 1, m2)
        ELSE IF At(s, v.next) = CloseBrace THEN Decoded(TRUE, m2)
        ELSE Decoded(FALSE, EmptyObject)

\* Decode reads one JSON value and stores it in the map: an object is stored
\* key by key, null leaves the map empty, any other value or text is an error.
Decode(s) ==
    IF HasPrefixAt(s, 1, NullLit) THEN Decoded(TRUE, EmptyObject)
    ELSE IF At(s, 1) # OpenBrace THEN Decoded(FALSE, EmptyObject)
    ELSE IF At(s, 2) = CloseBrace THEN Decoded(TRUE, EmptyObject)
    ELSE ScanMembers(s, 2, EmptyObject)

(***************************************************************************)
(* Configure                                                               *)
(***************************************************************************)
\* What a call returned and did: the error, the struct afterwards, whether a
\* flag was found, whether the JSON decoder ran, and the flag names defined.
Ret(err, fs, flagFound, jsonDecoded, names) ==
    [err |-> err, fields |-> fs, flagFound |-> flagFound,
     jsonDecoded |-> jsonDecoded, names |-> names]

\* A plausible slip: the flags are parsed on flag.CommandLine itself.
CommandLineParsedByConfigure(parsed) == TRUE

\* configFlags is a FlagSet of its own: parsing it leaves flag.CommandLine,
\* and so flag.Parsed(), as it was.
CommandLineParsedAfter(parsed) == parsed

\* A plausible slip: the parser's error is replaced by one of Configure's.
ParseFailureWrapped(err) == Err("configure: cannot parse arguments")

\* An error of configFlags.Parse is returned as it is.
ParseFailure(err) == err

\* A plausible slip: an empty flag value is taken like any other.
StringFlagAlwaysFound(flagValue) == TRUE

\* A string flag is found when its value is not empty.
StringFlagFound(flagValue) == flagValue # <<>>

\* A plausible slip: a bool flag counts as found when it is true.
BoolFlagFoundWhenTrue(flagValue, fieldValue) == flagValue

\* A plausible slip: a bool flag never counts as found.
BoolFlagNeverFound(flagValue, fieldValue) == FALSE

\* A bool flag is known to be set only when it changed the default.
BoolFlagFound(flagValue, fieldValue) == flagValue # fieldValue

\* The second loop of Configure: take the values of the flags.
RECURSIVE GrabValues(_, _, _, _)
GrabValues(fs, i, formal, found) ==
    IF i > Len(fs) THEN [err |-> Nil, fields |-> fs, flagFound |-> found]
    ELSE LET t == parseTagKey(fs[i].tag)
         IN  IF t.err # Nil THEN [err |-> t.err, fields |-> fs, flagFound |-> found]
             ELSE CASE fs[i].kind = "string" ->
                        IF StringFlagFound(formal[t.key].s)
                        THEN GrabValues([fs EXCEPT ![i].s = formal[t.key].s],
                                        i + 1, formal, TRUE)
                        ELSE GrabValues(fs, i + 1, formal, found)
                    [] fs[i].kind = "bool" ->
                        GrabValues([fs EXCEPT ![i].b = formal[t.key].b], i + 1, formal,
                                   found \/ BoolFlagFound(formal[t.key].b, fs[i].b))
                    [] OTHER -> GrabValues(fs, i + 1, formal, found)

\* A plausible slip: JSON is tried whether or not a flag was found.
ConsultJSONPerField(flagFound, arg0) == arg0 # <<>>

\* JSON is tried only if no flag was found and there is a first argument.
ConsultJSON(flagFound, arg0) == ~flagFound /\ arg0 # <<>>

\* A plausible slip: the decoder's own error is returned.
DecodeFailureUnwrapped == Err("unexpected EOF")

\* A decoding error is replaced by the sentinel.
DecodeFailure == ErrInvalidJSON

\* A plausible slip: jsonValues[tagVal] != "", as when all values were strings.
HasKeyNonEmpty(m, key) == key \in DOMAIN m /\ m[key].s # <<>>

\* _, ok := jsonValues[tagVal]: the key is in the object, whatever its value.
HasKey(m, key) == key \in DOMAIN m

\* The fields written from the decoded object; a value of another dynamic
\* type than the field's makes the type assertion panic.
RECURSIVE ApplyJSON(_, _, _)
ApplyJSON(fs, i, m) ==
    IF i > Len(fs) THEN [err |-> Nil, fields |-> fs]
    ELSE LET t == parseTagKey(fs[i].tag)
         IN  IF t.err # Nil THEN [err |-> t.err, fields |-> fs]
             ELSE IF HasKey(m, t.key)
             THEN CASE fs[i].kind = "string" ->
                         IF m[t.key].t = "string"
                         THEN ApplyJSON([fs EXCEPT ![i].s = m[t.key].s], i + 1, m)
                         ELSE [err |-> Panic, fields |-> fs]
                    [] fs[i].kind = "bool" ->
                         IF m[t.key].t = "bool"
                         THEN ApplyJSON([fs EXCEPT ![i].b = m[t.key].b], i + 1, m)
                         ELSE [err |-> Panic, fields |-> fs]
                    [] OTHER -> ApplyJSON(fs, i + 1, m)
             ELSE ApplyJSON(fs, i + 1, m)

\* fmt's %s of a []string: the elements between brackets, a space apart.
RECURSIVE JoinSpace(_)
JoinSpace(list) ==
    IF list = <<>> THEN <<>>
    ELSE IF Len(list) = 1 THEN list[1]
    ELSE list[1] \o <<" ">> \o JoinSpace(Tail(list))

Errorf(format, list) == [msg |-> format, arg |-> <<"[">> \o JoinSpace(list) \o <<"]">>]

\* A plausible slip: the name is put in front of the list.
AddMissingInFront(missing, key) == <<key>> \o missing

\* missingRequiredFields = append(missingRequiredFields, tagKey)
AddMissing(missing, key) == Append(missing, key)

\* A plausible slip: fields found missing so far are reported first.
RequiredBoolAfterMissing(missing) ==
    IF Len(missing) > 0 THEN Errorf(missingValuesErrTemplate, missing)
    ELSE ErrBoolCannotBeRequired

\* A required bool ends the validation at once, whatever was found missing.
RequiredBool(missing) == ErrBoolCannotBeRequired

\* The last loop of Configure: the required fields that are still empty.
RECURSIVE Validate(_, _, _)
Validate(fs, i, missing) ==
    IF i > Len(fs)
    THEN IF Len(missing) > 0 THEN Errorf(missingValuesErrTemplate, missing) ELSE Nil
    ELSE LET t == parseTagKey(fs[i].tag)
         IN  IF t.err # Nil THEN t.err
             ELSE IF t.required
             THEN CASE fs[i].kind = "string" ->
                         IF fs[i].s = <<>>
                         THEN Validate(fs, i + 1, AddMissing(missing, t.key))
                         ELSE Validate(fs, i + 1, missing)
                    [] fs[i].kind = "bool" -> RequiredBool(missing)
                    [] OTHER -> Validate(fs, i + 1, missing)
             ELSE Validate(fs, i + 1, missing)

Configure(parsed, ref, fs, argv) ==
    IF parsed THEN Ret(ErrFlagParsed, fs, FALSE, FALSE, {})
    ELSE IF ~ref THEN Ret(ErrStructOnly, fs, FALSE, FALSE, {})
    ELSE LET c == CreateFlags(fs, 1, NoFlags)
             names == DOMAIN c.formal
             p == Parse(c.formal, argv)
             g == GrabValues(fs, 1, p.formal, FALSE)
             arg0 == Arg0(p.rest)
             d == Decode(arg0)
             j == ApplyJSON(g.fields, 1, d.m)
         IN  IF c.err # Nil THEN Ret(c.err, fs, FALSE, FALSE, names)
             ELSE IF p.err # Nil THEN Ret(ParseFailure(p.err), fs, FALSE, FALSE, names)
             ELSE IF g.err # Nil THEN Ret(g.err, g.fields, g.flagFound, FALSE, names)
             ELSE IF ConsultJSON(g.flagFound, arg0)
             THEN IF ~d.ok THEN Ret(DecodeFailure, g.fields, g.flagFound, TRUE, names)
                  ELSE IF j.err # Nil THEN Ret(j.err, j.fields, g.flagFound, TRUE, names)
                  ELSE Ret(Validate(j.fields, 1, <<>>), j.fields, g.flagFound, TRUE, names)
             ELSE Ret(Validate(g.fields, 1, <<>>), g.fields, g.flagFound, FALSE, names)

(***************************************************************************)
(* The programs explored: a struct, an argument list, the state of the     *)
(* process-wide flag set.                                                  *)
(***************************************************************************)
NameA == <<"a">>
NameB == <<"b">>
NameZ == <<"z">>
Required(name) == name \o <<Comma>> \o requiredTagKey

StringField(t, v) == Field("string", t, TRUE, v, FALSE)
BoolField(t, v) == Field("bool", t, TRUE, <<>>, v)

FieldChoices ==
    {StringField(t, v) : t \in {NameA, Required(NameA)}, v \in {<<>>, <<"d">>}}
    \cup {StringField(Required(NameB), <<>>)}
    \cup {BoolField(t, v) : t \in {NameB, Required(NameB)}, v \in BOOLEAN}
    \cup {Field("float64", NameB, TRUE, <<>>, FALSE),
          Field("int", NameA, TRUE, <<>>, FALSE),
          Field("string", NameB, FALSE, <<>>, FALSE),
          StringField(<<>>, <<>>),
          StringField(Required(<<>>), <<>>),
          StringField(NameA \o <<Comma, "x">>, <<>>),
          StringField(Required(NameA) \o <<Comma, "x">>, <<>>)}

Structs == UNION {[1..n -> FieldChoices] : n \in 0..MaxFields}

\* The text of a JSON object with the given members, in their order.
EncodeValue(v) ==
    CASE v.t = "string" -> <<Quote>> \o v.s \o <<Quote>>
      [] v.t = "bool" -> IF v.b THEN TrueLit ELSE FalseLit
      [] v.t = "float64" -> v.s
      [] OTHER -> NullLit

EncodeMember(mem) == <<Quote>> \o mem[1] \o <<Quote, Colon>> \o EncodeValue(mem[2])

RECURSIVE EncodeMembers(_)
EncodeMembers(mems) ==
    IF mems = <<>> THEN <<>>
    ELSE IF Len(mems) = 1 THEN EncodeMember(mems[1])
    ELSE EncodeMember(mems[1]) \o <<Comma>> \o EncodeMembers(Tail(mems))

Encode(mems) == <<OpenBrace>> \o EncodeMembers(mems) \o <<CloseBrace>>

Flag(name, value) == <<Dash>> \o name \o <<Equals>> \o value

XText == <<"x">>

Objects ==
    {Encode(<<>>),
     Encode(<<<<NameA, JString(XText)>>>>),
     Encode(<<<<NameA, JString(XText)>>, <<NameB, JBool(TRUE)>>>>),
     Encode(<<<<NameB, JBool(TRUE)>>, <<NameA, JString(XText)>>>>),
     Encode(<<<<NameB, JBool(FALSE)>>>>),
     Encode(<<<<NameB, JString(XText)>>>>)}

\* Texts the decoder rejects: an object left open, and a bare word.
Malformed ==
    {<<OpenBrace>> \o EncodeMembers(<<<<NameA, JString(XText)>>>>),
     XText}

Positionals == Objects \cup Malformed \cup {NullLit}

\* Flags that parse against a struct of the fields above when it has them.
BindingFlagLists ==
    {<<>>,
     <<Flag(NameA, XText)>>,
     <<Flag(NameA, <<>>)>>,
     <<Flag(NameB, TrueLit)>>,
     <<Flag(NameB, FalseLit)>>,
     <<Flag(NameA, XText), Flag(NameB, FalseLit)>>}

\* Flags with one that no struct above defines, or given without a value.
OtherFlagLists ==
    {<<Flag(NameZ, XText)>>,
     <<<<Dash, "h">>>>,
     <<<<Dash, "b">>>>,
     <<<<Dash, "a">>, Flag(NameZ, XText)>>,
     <<<<Dash, "a">>, Flag(NameB, TrueLit)>>,
     <<Flag(NameA, XText), Flag(NameZ, XText)>>,
     <<Flag(NameZ, XText), Flag(NameA, XText)>>}

\* Flags alone, flags and a positional argument, and a flag after one.
ArgLists ==
    BindingFlagLists
    \cup OtherFlagLists
    \cup {fl \o <<p>> : fl \in BindingFlagLists, p \in Positionals}
    \cup {fl \o <<Encode(<<<<NameA, JString(XText)>>>>)>> : fl \in OtherFlagLists}
    \cup {<<Encode(<<<<NameA, JString(XText)>>>>), Flag(NameZ, XText)>>}

\* The first loop of Configure returns an error at this field: the call ends
\* before the arguments are read.
FirstLoopRejects(f) ==
    ~f.exported \/ ~SupportedKind(f.kind) \/ parseTagKey(f.tag).err # Nil

NoRet == Ret(Nil, <<>>, FALSE, FALSE, {})
NoTagResult == TagResult(<<>>, FALSE, Nil)

Init ==
    /\ flagParsed \in BOOLEAN
    /\ byRef \in BOOLEAN
    /\ fields \in Structs
    /\ args \in ArgLists
    /\ (flagParsed \/ ~byRef) => (Len(fields) <= 1 /\ Len(args) <= 1)
    /\ (\E i \in DOMAIN fields : FirstLoopRejects(fields[i])) => Len(args) <= 1
    /\ pre = fields
    /\ preParsed = flagParsed
    /\ pc = "idle"
    /\ calls = 0
    /\ ret = NoRet
    /\ tag = <<>>
    /\ tagResult = NoTagResult

\* The process calls Configure(&config).
Call ==
    /\ calls < MaxCalls
    /\ LET r == Configure(flagParsed, byRef, fields, args)
       IN  /\ ret' = r
           /\ fields' = r.fields
    /\ pre' = fields
    /\ preParsed' = flagParsed
    /\ flagParsed' = CommandLineParsedAfter(flagParsed)
    /\ pc' = "done"
    /\ calls' = calls + 1
    /\ UNCHANGED <<byRef, args, tag, tagResult>>

Next == Call

Spec == Init /\ [][Next]_vars

(***************************************************************************)
(* The tag specification: parseTagKey applied to every tag of up to        *)
(* MaxTokens comma-separated tokens.                                       *)
(***************************************************************************)
TagTokens ==
    {<<>>, NameA, requiredTagKey, SubSeq(requiredTagKey, 1, 7), requiredTagKey \o XText}

RECURSIVE JoinComma(_)
JoinComma(tokens) ==
    IF Len(tokens) = 1 THEN tokens[1]
    ELSE tokens[1] \o <<Comma>> \o JoinComma(Tail(tokens))

Tags == {JoinComma(ts) : ts \in UNION {[1..n -> TagTokens] : n \in 1..MaxTokens}}

InitTag ==
    /\ tag \in Tags
    /\ tagResult = NoTagResult
    /\ pc = "idle"
    /\ flagParsed = FALSE
    /\ byRef = TRUE
    /\ fields = <<>>
    /\ pre = <<>>
    /\ preParsed = FALSE
    /\ args = <<>>
    /\ calls = 0
    /\ ret = NoRet

ParseTag ==
    /\ pc = "idle"
    /\ tagResult' = parseTagKey(tag)
    /\ pc' = "done"
    /\ UNCHANGED <<flagParsed, byRef, fields, pre, preParsed, args, calls, ret, tag>>

NextTag == ParseTag

SpecTag == InitTag /\ [][NextTag]_vars

(***************************************************************************)
(* Vocabulary of the properties, stated on a call's inputs (pre,           *)
(* preParsed, byRef, args) and its outcome (ret, fields, flagParsed).      *)
(***************************************************************************)
Returned == pc = "done"

ParamName(f) == parseTagKey(f.tag).key
IsRequired(f) == parseTagKey(f.tag).required
TagOK(f) == parseTagKey(f.tag).err = Nil
Names(fs) == {ParamName(fs[i]) : i \in DOMAIN fs}

\* Field i passes the checks of the first loop, and its name is new.
FieldAccepted(fs, i) ==
    /\ fs[i].exported
    /\ fs[i].kind \in {"string", "bool"}
    /\ TagOK(fs[i])
    /\ \A j \in 1..(i - 1) : ParamName(fs[j]) # ParamName(fs[i])

\* The call gets past the FlagAlreadyParsed and StructOnly checks.
Entered == ~preParsed /\ byRef

\* The call gets to parse the arguments against one flag per field.
FlagsDefined == Entered /\ \A i \in DOMAIN pre : FieldAccepted(pre, i)

\* The flag set of the struct before the call, and the arguments parsed with it.
FormalOf(fs) ==
    [n \in Names(fs) |->
        LET i == CHOOSE k \in DOMAIN fs : ParamName(fs[k]) = n
        IN  IF fs[i].kind = "string" THEN FlagVar("string", <<>>, FALSE)
            ELSE FlagVar("bool", <<>>, fs[i].b)]
Parsed == Parse(FormalOf(pre), args)
ArgsParse == FlagsDefined /\ Parsed.err = Nil

\* Field i's flag was found: a non-empty string, or a bool that differs
\* from the value the field had.
FoundAt(i) ==
    LET v == Parsed.formal[ParamName(pre[i])]
    IN  IF pre[i].kind = "string" THEN v.s # <<>> ELSE v.b # pre[i].b
AnyFlagFound == \E i \in DOMAIN pre : FoundAt(i)

\* The fields as the flags alone leave them.
FromFlags ==
    [i \in DOMAIN pre |->
        LET v == Parsed.formal[ParamName(pre[i])]
        IN  IF pre[i].kind = "string"
            THEN IF v.s # <<>> THEN [pre[i] EXCEPT !.s = v.s] ELSE pre[i]
            ELSE [pre[i] EXCEPT !.b = v.b]]

Positional == Arg0(Parsed.rest)
Object == Decode(Positional)

\* The orders in which the members of a decoded object can be written.
Orderings(m) ==
    LET members == {<<k, m[k]>> : k \in DOMAIN m}
        n == Cardinality(members)
    IN  {o \in [1..n -> members] : \A x, y \in 1..n : x # y => o[x] # o[y]}

\* The positional argument is the text of an object with distinct keys.
WellFormedObject == Object.ok /\ \E o \in Orderings(Object.m) : Positional = Encode(o)

\* Every key that names a field has a value of the field's type.
CorrectlyTyped ==
    \A i \in DOMAIN pre :
        ParamName(pre[i]) \in DOMAIN Object.m
            => Object.m[ParamName(pre[i])].t = pre[i].kind

JSONConsulted == ArgsParse /\ ~AnyFlagFound /\ Positional # <<>>

\* The call gets to the validation of the required fields.
BindingCompletes ==
    /\ ArgsParse
    /\ (~AnyFlagFound /\ Positional # <<>>) => (Object.ok /\ CorrectlyTyped)

(***************************************************************************)
(* Properties                                                              *)
(***************************************************************************)

\* C1: when a flag is found (a string flag parsed to a non-empty value, or a
\* bool flag parsed to a value other than the field's pre-call value), the
\* positional JSON argument is not decoded and every field holds what the
\* flags alone give it, also the fields no flag was given for.
C1_FlagsSuppressJSON ==
    (Returned /\ ArgsParse /\ AnyFlagFound)
        => /\ ~ret.jsonDecoded
           /\ ret.flagFound
           /\ fields = FromFlags

\* A flag was found, and the object that follows it has a key naming a
\* field that no flag was given for and that kept its pre-call value.
C1_Witness ==
    /\ Returned /\ ArgsParse /\ AnyFlagFound
    /\ WellFormedObject
    /\ \E i \in DOMAIN pre :
          /\ ~FoundAt(i)
          /\ ParamName(pre[i]) \in DOMAIN Object.m
          /\ pre[i].kind = "bool"
          /\ Object.m[ParamName(pre[i])].t = "bool"
          /\ Object.m[ParamName(pre[i])].b # pre[i].b
          /\ fields[i] = pre[i]

\* The field values the object gives: a key's value for the field it names,
\* the pre-call value for the others.
FromObject(m) ==
    [i \in DOMAIN pre |->
        LET n == ParamName(pre[i])
        IN  IF n \notin DOMAIN m THEN pre[i]
            ELSE IF pre[i].kind = "string" THEN [pre[i] EXCEPT !.s = m[n].s]
            ELSE [pre[i] EXCEPT !.b = m[n].b]]

\* The arguments with the positional object rewritten in the order o.
Reordered(o) ==
    LET k == Len(args) - Len(Parsed.rest) + 1
    IN  [args EXCEPT ![k] = Encode(o)]

\* C2: with no flag found and a well-formed, correctly typed JSON object as
\* first positional argument, every field named by a key holds the key's
\* value, every other field keeps its pre-call value, and the same call on
\* the object written in any other key order gives the same result.
C2_JSONBinding ==
    (Returned /\ JSONConsulted /\ WellFormedObject /\ CorrectlyTyped)
        => /\ ret.jsonDecoded
           /\ fields = FromObject(Object.m)
           /\ \A o \in Orderings(Object.m) :
                 Configure(preParsed, byRef, pre, Reordered(o)) = ret

\* An object of two keys was applied and changed a string and a bool field.
C2_Witness ==
    /\ Returned /\ JSONConsulted /\ WellFormedObject /\ CorrectlyTyped
    /\ Cardinality(DOMAIN Object.m) >= 2
    /\ \E i, j \in DOMAIN pre :
          /\ pre[i].kind = "string" /\ fields[i].s # pre[i].s
          /\ pre[j].kind = "bool" /\ fields[j].b # pre[j].b

\* The required fields that hold their zero value after binding.
ZeroRequired ==
    {i \in DOMAIN fields :
        /\ IsRequired(fields[i])
        /\ \/ fields[i].kind = "string" /\ fields[i].s = <<>>
           \/ fields[i].kind = "bool" /\ ~fields[i].b}

\* The required string fields that hold the empty string after binding.
EmptyRequired ==
    {i \in DOMAIN fields :
        IsRequired(fields[i]) /\ fields[i].kind = "string" /\ fields[i].s = <<>>}

\* Their parameter names in declaration order.
RECURSIVE NamesInOrder(_, _)
NamesInOrder(fs, idx) ==
    IF idx = {} THEN <<>>
    ELSE LET i == CHOOSE k \in idx : \A j \in idx : k <= j
         IN  <<ParamName(fs[i])>> \o NamesInOrder(fs, idx \ {i})

HasRequiredBool == \E i \in DOMAIN pre : pre[i].kind = "bool" /\ IsRequired(pre[i])

\* C3 as claimed: after binding, MissingRequiredFields exactly when a
\* required field holds its zero value, and success otherwise.
C3_AsClaimed ==
    (Returned /\ BindingCompletes)
        => /\ (ret.err.msg = missingValuesErrTemplate) <=> (ZeroRequired # {})
           /\ (ZeroRequired = {}) => (ret.err = Nil)

\* C3, amended: for a struct with no required bool field, after binding the
\* call fails with MissingRequiredFields exactly when a required string field
\* is empty, the error carries the names of all such fields, each once, in
\* declaration order, and the call succeeds when there is none.
C3_MissingRequired ==
    (Returned /\ BindingCompletes /\ ~HasRequiredBool)
        => ret.err = IF EmptyRequired # {}
                     THEN Errorf(missingValuesErrTemplate,
                                 NamesInOrder(fields, EmptyRequired))
                     ELSE Nil

\* Two required string fields were left empty and both are reported.
C3_Witness ==
    /\ Returned /\ BindingCompletes /\ ~HasRequiredBool
    /\ Cardinality(EmptyRequired) >= 2
    /\ ret.err.msg = missingValuesErrTemplate

\* C4 as claimed: a call that gets past the FlagAlreadyParsed check and
\* parses its arguments leaves the process-wide flag state marked as parsed.
C4_AsClaimed == (Returned /\ ArgsParse) => flagParsed

\* C4, amended: a call returns FlagAlreadyParsed exactly when the
\* process-wide flag set had been parsed before it, and leaves that state as
\* it found it; so a call that follows one that got past the check gets past
\* it too.
C4_ParseStateUntouched ==
    [][(pc' = "done" /\ calls' = calls + 1)
         => /\ flagParsed' = flagParsed
            /\ (ret'.err = ErrFlagParsed) <=> flagParsed]_vars

\* A second call was made after a first and got past the check.
C4_Witness == Returned /\ calls = 2 /\ ret.err # ErrFlagParsed /\ ~preParsed

\* C5: with no flag found and a non-empty first positional argument that the
\* decoder rejects, the call fails with ErrInvalidJSON, whatever the fields
\* and their required markers are.
C5_InvalidJSON ==
    (Returned /\ JSONConsulted /\ Positional \in Malformed)
        => ret.err = ErrInvalidJSON

\* Malformed JSON was met on a struct with an empty required string field
\* and a required bool field.
C5_Witness ==
    /\ Returned /\ JSONConsulted /\ Positional \in Malformed
    /\ HasRequiredBool
    /\ EmptyRequired # {}
    /\ ret.err = ErrInvalidJSON

\* An argument the parser takes for a flag, and the name it reads in it.
IsFlagToken(s) == Len(s) >= 2 /\ s[1] = Dash
TokenBody(s) == SubSeq(s, IF s[2] = Dash THEN 3 ELSE 2, Len(s))
TokenHasValue(s) == \E i \in 2..Len(TokenBody(s)) : TokenBody(s)[i] = Equals
TokenName(s) ==
    LET body == TokenBody(s)
        eqs == {i \in 2..Len(body) : body[i] = Equals}
    IN  IF eqs = {} THEN body
        ELSE SubSeq(body, 1, (CHOOSE i \in eqs : \A j \in eqs : i <= j) - 1)
TokenValue(s) == SubSeq(TokenBody(s), Len(TokenName(s)) + 2, Len(TokenBody(s)))
NamedFlag(s) ==
    /\ IsFlagToken(s)
    /\ TokenBody(s) # <<>>
    /\ TokenBody(s)[1] \notin {Dash, Equals}

\* The arguments before the first one that is not a flag.
LeadingFlags ==
    {k \in 1..Len(args) : \A j \in 1..k : IsFlagToken(args[j])}

\* A flag of the struct given whole: name=value, or a bool flag without value
\* or with a value that reads as a bool.
KnownFlag(s) ==
    /\ NamedFlag(s)
    /\ TokenName(s) \in Names(pre)
    /\ LET i == CHOOSE k \in DOMAIN pre : ParamName(pre[k]) = TokenName(s)
       IN  IF pre[i].kind = "bool"
           THEN TokenHasValue(s) => TokenValue(s) \in TrueTexts \cup FalseTexts
           ELSE TokenHasValue(s)

\* The parser reaches argument k as a flag, and its name is not defined.
UndefinedFlagAt(k) ==
    /\ k \in 1..Len(args)
    /\ \A j \in 1..(k - 1) : KnownFlag(args[j])
    /\ NamedFlag(args[k])
    /\ TokenName(args[k]) \notin Names(pre)

NotDefinedMsg == "flag provided but not defined: -%s"

\* C6 as claimed: a flag among the arguments whose name is no parameter
\* name makes the call fail with "flag provided but not defined".
C6_AsClaimed ==
    (Returned /\ FlagsDefined
        /\ \E k \in LeadingFlags : TokenName(args[k]) \notin Names(pre))
        => ret.err.msg = NotDefinedMsg

\* C6, amended: when every argument before it is a flag of the struct given
\* whole, a flag whose name is no parameter name makes the call fail with the
\* parser's own error as the parser made it: "flag provided but not defined"
\* with the flag's name, or the help error for an undefined -h or -help;
\* whatever follows it and whatever the required fields hold.
C6_UndefinedFlag ==
    \A k \in 1..Len(args) :
        (Returned /\ FlagsDefined /\ UndefinedFlagAt(k))
            => ret.err = IF TokenName(args[k]) \in HelpNames THEN ErrHelp
                         ELSE ErrNotDefined(TokenName(args[k]))

\* An undefined flag came after a flag that was given, before a JSON object,
\* with a required field left empty, and the parser's error was returned.
C6_Witness ==
    /\ Returned /\ FlagsDefined /\ UndefinedFlagAt(2)
    /\ Len(args) = 3
    /\ EmptyRequired # {}
    /\ ret.err = ErrNotDefined(NameZ)

\* C7: when binding completes on a struct with a required bool field, the
\* call fails with ErrBoolCannotBeRequired, whatever the bool holds, whichever
\* source gave it, and whether or not required string fields are empty.
C7_RequiredBool ==
    (Returned /\ BindingCompletes /\ HasRequiredBool)
        => ret.err = ErrBoolCannotBeRequired

\* A required string field declared before the required bool was left empty.
C7_Witness ==
    /\ Returned /\ BindingCompletes
    /\ \E i, j \in DOMAIN pre :
          /\ i < j
          /\ i \in EmptyRequired
          /\ pre[j].kind = "bool" /\ IsRequired(pre[j])
    /\ ret.err = ErrBoolCannotBeRequired

\* The commas of a tag.
Commas(t) == {i \in 1..Len(t) : t[i] = Comma}

\* C8: parseTagKey returns ErrNoTagValue for the empty tag; the tag itself,
\* not required, for a tag without comma; the text before the comma,
\* required, for one comma followed by exactly "required";
\* ErrStructTagInvalidOption for one comma followed by anything else;
\* ErrTooManyTagValues for two commas or more.
C8_ParseTagKey ==
    Returned =>
        LET n == Cardinality(Commas(tag))
            c == CHOOSE i \in Commas(tag) : TRUE
        IN  CASE tag = <<>> -> tagResult.err = ErrNoTagValue
              [] tag # <<>> /\ n = 0 -> tagResult = TagResult(tag, FALSE, Nil)
              [] n = 1 /\ SubSeq(tag, c + 1, Len(tag)) = requiredTagKey ->
                    tagResult = TagResult(SubSeq(tag, 1, c - 1), TRUE, Nil)
              [] n = 1 /\ SubSeq(tag, c + 1, Len(tag)) # requiredTagKey ->
                    tagResult.err = ErrStructTagInvalidOption
              [] OTHER -> tagResult.err = ErrTooManyTagValues

\* A tag of a name, a comma and "required" was parsed as a required name.
C8_Witness ==
    /\ Returned
    /\ tag = Required(NameA)
    /\ tagResult = TagResult(NameA, TRUE, Nil)

\* C9 as claimed: every tag that parseTagKey accepts gives a non-empty key.
C9_AsClaimed == (Returned /\ tagResult.err = Nil) => tagResult.key # <<>>

\* C10 as claimed: a struct whose fields are all strings, bools or floats
\* never fails with the unsupported-type error.
C10_AsClaimed ==
    (Returned /\ Entered /\ \A i \in DOMAIN pre : pre[i].kind \in {"string", "bool", "float64"})
        => ret.err # ErrStringAndBoolOnly

\* C10, amended: a field is accepted exactly when it is a string or a bool.
\* A call that gets past the first two checks fails with the unsupported-type
\* error exactly when the struct has a field of another type, a float
\* included, that is settable and that only accepted fields precede.
C10_StringAndBoolOnly ==
    (Returned /\ Entered)
        => (ret.err = ErrStringAndBoolOnly
              <=> \E i \in DOMAIN pre :
                     /\ pre[i].kind \notin {"string", "bool"}
                     /\ pre[i].exported
                     /\ \A j \in 1..(i - 1) : FieldAccepted(pre, j))

\* A float field after an accepted field was refused.
C10_Witness ==
    /\ Returned /\ Entered
    /\ \E i \in DOMAIN pre : i > 1 /\ pre[i].kind = "float64"
    /\ ret.err = ErrStringAndBoolOnly

\* The arguments the parser reads as flags, from argument k on: a string
\* flag of the struct given without "=" takes the next argument as its value.
RECURSIVE FlagPositions(_)
FlagPositions(k) ==
    IF k > Len(args) \/ ~NamedFlag(args[k]) THEN {}
    ELSE LET n == TokenName(args[k])
             takesNext ==
                 /\ n \in Names(pre)
                 /\ ~TokenHasValue(args[k])
                 /\ \E i \in DOMAIN pre : ParamName(pre[i]) = n /\ pre[i].kind = "string"
         IN  {k} \cup FlagPositions(IF takesNext THEN k + 2 ELSE k + 1)

\* Where field i's flag is given, and the bool its last occurrence gives.
GivenAt(i) == {k \in FlagPositions(1) : TokenName(args[k]) = ParamName(pre[i])}
GivenBool(i) ==
    LET k == CHOOSE x \in GivenAt(i) : \A y \in GivenAt(i) : y <= x
    IN  IF TokenHasValue(args[k]) THEN TokenValue(args[k]) \in TrueTexts ELSE TRUE

\* The call succeeded and JSON was not consulted.
SucceededOnFlags ==
    /\ Returned /\ ArgsParse
    /\ AnyFlagFound \/ Positional = <<>>
    /\ ret.err = Nil

\* C11: when the call succeeds without consulting JSON, a bool field holds
\* the value its flag gives if the flag is among the arguments read as flags
\* (true for -name=true, false for -name=false, whatever it held before), and
\* its pre-call value if not.
C11_BoolFromFlag ==
    SucceededOnFlags
        => \A i \in DOMAIN pre :
              pre[i].kind = "bool"
                  => fields[i].b = IF GivenAt(i) # {} THEN GivenBool(i) ELSE pre[i].b

\* A bool pre-populated with true was set to false by -name=false.
C11_Witness ==
    /\ SucceededOnFlags
    /\ \E i \in DOMAIN pre :
          /\ pre[i].kind = "bool" /\ pre[i].b
          /\ GivenAt(i) # {} /\ ~GivenBool(i)
          /\ ~fields[i].b

\* The text the last occurrence of string field i's flag gives.
GivenString(i) ==
    LET k == CHOOSE x \in GivenAt(i) : \A y \in GivenAt(i) : y <= x
    IN  IF TokenHasValue(args[k]) THEN TokenValue(args[k]) ELSE args[k + 1]

\* Field i's flag is absent, or given with an empty value.
Blank(i) == GivenAt(i) = {} \/ GivenString(i) = <<>>

\* The JSON object is decoded and has a key naming field i.
KeyedByJSON(i) ==
    JSONConsulted /\ Object.ok /\ ParamName(pre[i]) \in DOMAIN Object.m

StringFields == {i \in DOMAIN pre : pre[i].kind = "string"}
BoolFields == {i \in DOMAIN pre : pre[i].kind = "bool"}

\* C12: a string field is overwritten only by its flag given with a non-empty
\* value, or, when JSON is consulted, by the key of its name.  A flag that is
\* absent or given empty leaves the field as it was, is not a flag found, and
\* so lets a positional argument be decoded; and a struct whose required
\* strings are pre-populated, with no JSON key for them, passes validation.
C12_StringDefaults ==
    (Returned /\ ArgsParse)
        => LET positional == Positional
               object == Decode(positional)
               consulted == ~AnyFlagFound /\ positional # <<>>
               blank == {i \in StringFields : Blank(i)}
               keyed == {i \in StringFields :
                            consulted /\ object.ok /\ ParamName(pre[i]) \in DOMAIN object.m}
           IN  /\ \A i \in StringFields \ blank : fields[i].s = GivenString(i)
               /\ \A i \in blank \ keyed : fields[i].s = pre[i].s
               /\ \A i \in blank \cap keyed :
                     \/ fields[i].s = pre[i].s /\ ret.err = Panic
                     \/ /\ object.m[ParamName(pre[i])].t = "string"
                        /\ fields[i].s = object.m[ParamName(pre[i])].s
               /\ (blank = StringFields /\ \A i \in BoolFields : ~FoundAt(i))
                     => /\ ~ret.flagFound
                        /\ ret.jsonDecoded <=> (positional # <<>>)
               /\ (/\ consulted => (object.ok /\ CorrectlyTyped)
                   /\ ~HasRequiredBool
                   /\ \A i \in StringFields :
                         IsRequired(pre[i]) => (pre[i].s # <<>> /\ i \notin keyed))
                     => ret.err = Nil

\* A required string pre-populated with a value was given an empty flag: the
\* flag left it alone, the object that followed was decoded and its key
\* overwrote the value.
C12_Witness ==
    /\ Returned /\ ArgsParse
    /\ \E i \in StringFields :
          /\ IsRequired(pre[i]) /\ pre[i].s # <<>>
          /\ GivenAt(i) # {} /\ GivenString(i) = <<>>
          /\ ret.jsonDecoded /\ KeyedByJSON(i)
          /\ fields[i].s = Object.m[ParamName(pre[i])].s
          /\ fields[i].s # pre[i].s

\* Every flag that is given restates what the field holds, or is blank.
OnlyInvisibleFlags ==
    /\ \A i \in StringFields : Blank(i)
    /\ \A i \in BoolFields : GivenAt(i) # {} => GivenBool(i) = pre[i].b

\* C13: a bool flag given with the value the field already has is not a flag
\* found: when every flag given is of that sort and a non-empty positional
\* argument follows, the argument is decoded as JSON and applied, and a key
\* for that bool replaces the value the flag gave.  A bool flag given with
\* the other value is a flag found, and the JSON argument is not decoded.
C13_BoolSameAsDefault ==
    (Returned /\ ArgsParse)
        => \A i \in BoolFields :
              GivenAt(i) # {}
                 => /\ (GivenBool(i) = pre[i].b /\ OnlyInvisibleFlags)
                          => /\ ~ret.flagFound
                             /\ Positional # <<>>
                                  => /\ ret.jsonDecoded
                                     /\ Object.ok \/ ret.err = ErrInvalidJSON
                                     /\ (Object.ok /\ CorrectlyTyped)
                                           => fields = FromObject(Object.m)
                    /\ GivenBool(i) # pre[i].b
                          => /\ ret.flagFound
                             /\ ~ret.jsonDecoded
                             /\ fields[i].b = GivenBool(i)

\* A bool flag restated the field's value, and the object that followed set
\* the field to the other value.
C13_Witness ==
    /\ Returned /\ ArgsParse /\ OnlyInvisibleFlags
    /\ \E i \in BoolFields :
          /\ GivenAt(i) # {} /\ GivenBool(i) = pre[i].b
          /\ ret.jsonDecoded /\ Object.ok /\ CorrectlyTyped
          /\ ParamName(pre[i]) \in DOMAIN Object.m
          /\ fields[i].b = Object.m[ParamName(pre[i])].b
          /\ fields[i].b # GivenBool(i)

\* The errors of the checks made before the first write to a field, of the
\* argument parse and of the JSON decoder.
LeavesFieldsAlone(err) ==
    \/ err \in {ErrStructOnly, ErrFlagParsed, ErrNotReference, ErrStringAndBoolOnly,
                ErrNoTagValue, ErrStructTagInvalidOption, ErrTooManyTagValues,
                ErrInvalidJSON}
    \/ err.msg \in {ErrHelp.msg, ErrNotDefined(<<>>).msg, ErrBadSyntax(<<>>).msg,
                    ErrNeedsArgument(<<>>).msg, ErrInvalidBool(<<>>).msg}

\* The results with which a return can leave a field changed.
MayChangeFields(err) ==
    \/ err \in {Nil, ErrBoolCannotBeRequired}
    \/ err.msg = missingValuesErrTemplate

\* C14: when Configure returns StructOnly, FlagAlreadyParsed, NotAReference,
\* the unsupported-type error, a tag error, an argument-parse error or
\* InvalidJSON, every field has its pre-call value; a field differs from its
\* pre-call value only when Configure returns success, MissingRequiredFields
\* or BooleanCannotBeRequired.  (A panic is not a return.)
C14_ErrorsLeaveFields ==
    (Returned /\ ret.err # Panic)
        => /\ LeavesFieldsAlone(ret.err) \/ MayChangeFields(ret.err)
           /\ LeavesFieldsAlone(ret.err) => fields = pre
           /\ fields # pre => MayChangeFields(ret.err)

\* InvalidJSON was returned after the second loop wrote a bool that is true
\* from a flag that restated it.
C14_Witness ==
    /\ Returned /\ ArgsParse
    /\ ret.err = ErrInvalidJSON
    /\ \E i \in BoolFields : pre[i].b /\ GivenAt(i) # {} /\ GivenBool(i)
    /\ fields = pre

====
